---- MODULE Spec2Model ----
(***************************************************************************)
(* A model of the tokenizer of ser2net's utils.c: gettok, its driver       *)
(* str_to_argv and the release call str_to_argv_free.                      *)
(*                                                                         *)
(* Characters are byte values 0..255.  A C string is a sequence of bytes   *)
(* followed by a 0 byte; a pointer into the working buffer is a 1-based    *)
(* index into buf, and the null pointer is 0.  Heap blocks are numbered in *)
(* the order they are allocated: block 1 is the strdup'ed working buffer,  *)
(* the later ones are the token arrays.                                    *)
(***************************************************************************)
EXTENDS Integers, Sequences, FiniteSets, TLC

(* ------------------------------ bounds -------------------------------- *)

\* Longest input drawn from the whole of Alphabet.
MaxLen == 4
\* Most tokens in the inputs made of one-character tokens.
MaxTok == 19

\* Longest scan_int argument drawn from the whole of NumAlphabet.
MaxNum == 3

(* ----------------------- character constants -------------------------- *)

BACKSLASH == 92
SQUOTE == 39
DQUOTE == 34
SPACE == 32
CH_x == 120
CH_0 == 48
CH_A == 65
CH_a == 97
ENOMEM == 12
\* The error gettok returns for malformed input.
EBADTOK == -1
\* An array slot or a variable that was never assigned.
INDET == -2

\* " \f\n\r\t\v"
DefaultSeps == {32, 12, 10, 13, 9, 11}

isdigit(c) == c \in 48..57
isxdigit(c) == c \in (48..57) \cup (65..70) \cup (97..102)
isupper(c) == c \in 65..90
isodigit(c) == isdigit(c) /\ c # 56 /\ c # 57

\* A value stored into a char: the low eight bits (the same bits whether
\* char is signed or unsigned, for sums and products as well).
ToChar(v) == v % 256

\* Mutant: the caller's separator set is ignored.
is_sep_space_Default(c, sepset) == c # 0 /\ c \in DefaultSeps

is_sep_space(c, sepset) == c # 0 /\ c \in sepset

\* Mutant: leading separators are not skipped.
skip_spaces_None(b, i, sepset) == i

RECURSIVE skip_spaces(_, _, _)
skip_spaces(b, i, sepset) ==
  IF is_sep_space(b[i], sepset) THEN skip_spaces(b, i + 1, sepset) ELSE i

\* The largest value of scan_int's int rv (32 bits)
INT_MAX == 2147483647

(* ------------------------------ inputs -------------------------------- *)

Alphabet == {CH_a, SPACE, DQUOTE, SQUOTE, BACKSLASH, 49, CH_x}

RECURSIVE SeqsOfLen(_, _)
SeqsOfLen(S, n) ==
  IF n = 0 THEN {<<>>}
  ELSE {Append(q, c) : q \in SeqsOfLen(S, n - 1), c \in S}

ShortInputs == UNION {SeqsOfLen(Alphabet, n) : n \in 0..MaxLen}

\* k one-character tokens separated by single spaces.
RECURSIVE ManyTokens(_)
ManyTokens(k) ==
  IF k = 1 THEN <<CH_a>> ELSE ManyTokens(k - 1) \o <<SPACE, CH_a>>

\* ... and the same followed by a lone backslash, which is malformed
LongInputs ==
  {ManyTokens(k) : k \in 7..MaxTok}
  \cup {ManyTokens(k) \o <<SPACE, BACKSLASH>> : k \in 7..MaxTok}

HexDigits == (48..57) \cup (65..70) \cup (97..102)
OctDigits == 48..55

\* backslash x h1 h2, and the same followed by a third hex digit
HexInputs ==
  {<<BACKSLASH, CH_x, h1, h2>> : h1 \in HexDigits, h2 \in HexDigits}
  \cup {<<BACKSLASH, CH_x, h1, h2, h3>> :
          h1 \in {49, 57, 98}, h2 \in {48, 56, 70}, h3 \in {50, 66, 101}}

\* backslash followed by one to three octal digits, and the same followed
\* by one more character: a fourth octal digit, or 8, or a
OctRuns == UNION {SeqsOfLen(OctDigits, n) : n \in 1..3}

OctInputs ==
  {<<BACKSLASH>> \o d : d \in OctRuns}
  \cup {<<BACKSLASH, d1, d2, d3, d4>> :
          d1 \in {48, 51, 55}, d2 \in {49, 55}, d3 \in {50, 55}, d4 \in OctDigits}
  \cup {<<BACKSLASH>> \o d \o <<c>> :
          d \in {<<48>>, <<55>>, <<49, 50>>, <<55, 55>>, <<51, 55, 55>>},
          c \in {56, CH_a}}

\* The inputs of the documented examples
Examples ==
  { <<97, 32, 98, 32, 99>>,                       \* a b c
    <<97, 32, 34, 98, 32, 99, 34, 32, 100>>,      \* a "b c" d
    <<97, 92, 32, 98>>,                           \* a\ b
    <<92, 49, 48, 49>>,                           \* \101
    <<92, 120, 52, 49>>,                          \* \x41
    <<34, 117, 110, 116, 101, 114, 109>>,         \* "unterm
    <<116, 114, 97, 105, 108, 92>>,               \* trail\
    <<97, 44, 98, 44, 99>>,                       \* a,b,c
    <<32, 32, 97, 32, 32, 32, 98, 32, 32>>,       \* leading, repeated, trailing
    <<97, 92, 110, 39, 98, 34, 32, 39, 99>> }     \* a\n'b" 'c

\* The separator strings the callers pass; NULL selects DefaultSeps.
SepArgs ==
  { [isnull |-> TRUE, chars |-> {}],
    [isnull |-> FALSE, chars |-> {49}],
    [isnull |-> FALSE, chars |-> {SPACE, DQUOTE, BACKSLASH}] }

ExampleSepArgs ==
  { [isnull |-> TRUE, chars |-> {}], [isnull |-> FALSE, chars |-> {44}] }

(* ------------------------------ state --------------------------------- *)

VARIABLES
  pc,        \* position in str_to_argv / gettok / the caller
  ins,       \* the caller's input string (without its terminator)
  seps,      \* the seps argument, then the separator set in force
  buf,       \* the working buffer orig_s points to, terminator included
  prov,      \* for each byte of buf, the statement that wrote it
  s,         \* str_to_argv's cursor
  tok,       \* str_to_argv's tok
  err,       \* str_to_argv's err
  argc, args,
  argvp,     \* the block argv points to (0: NULL)
  argv,      \* the contents of that block, slots 0..args-1
  t, p, o, inquote, escape, base, cval,   \* gettok's locals
  toks,      \* the tokens gettok has returned so far, in order
  live,      \* the heap blocks allocated and not yet freed
  nfree,     \* per block, how many times it was released
  r_argc, r_argv,   \* the caller's *r_argc and *r_argv
  rd,        \* the slot str_to_argv_free read (-1: none)
  fault,     \* invalid memory operations so far
  num,       \* the string scan_int is called with (without its terminator)
  str,       \* scan_int's str, an index into num
  rv,        \* scan_int's rv
  ret        \* what scan_int returned

vars == <<pc, ins, seps, buf, prov, s, tok, err, argc, args, argvp, argv,
          t, p, o, inquote, escape, base, cval, toks, live, nfree,
          r_argc, r_argv, rd, fault, num, str, rv, ret>>

gvars == <<t, p, o, inquote, escape, base, cval>>
heapvars == <<live, nfree>>
outvars == <<r_argc, r_argv, rd, fault>>
sivars == <<num, str, rv, ret>>

\* The locals of str_to_argv and gettok and the heap before the call.
Fresh ==
  /\ buf = <<>> /\ prov = <<>>
  /\ s = 0 /\ tok = INDET /\ err = INDET
  /\ argc = 0 /\ args = 0 /\ argvp = 0 /\ argv = <<>>
  /\ t = 0 /\ p = 0 /\ o = 0 /\ inquote = 0 /\ escape = 0 /\ base = 8
  /\ cval = 0
  /\ toks = <<>>
  /\ live = {} /\ nfree = <<>>
  /\ r_argc = -1 /\ r_argv = 0 /\ rd = -1 /\ fault = {}

\* No call of scan_int is in progress.
NoScanInt == num = <<>> /\ str = 0 /\ rv = 0 /\ ret = INDET

Init ==
  /\ \/ ins \in ShortInputs /\ seps \in SepArgs
     \/ ins \in LongInputs \cup HexInputs \cup OctInputs
        /\ seps = [isnull |-> TRUE, chars |-> {}]
     \/ ins \in Examples /\ seps \in ExampleSepArgs
  /\ pc = "strdup"
  /\ Fresh
  /\ NoScanInt

(* ------------------------------- heap --------------------------------- *)

\* free(b)
Release(lv, nf, b) ==
  [live |-> lv \ {b}, nfree |-> [nf EXCEPT ![b] = @ + 1]]

(* ------------------------ str_to_argv: set-up -------------------------- *)

\* char *orig_s = strdup(ins); if (!s) return ENOMEM;
Strdup ==
  /\ pc = "strdup"
  /\ \/ /\ buf' = ins \o <<0>>
        /\ prov' = [i \in 1..(Len(ins) + 1) |-> "in"]
        /\ s' = 1
        /\ live' = live \cup {1}
        /\ nfree' = <<0>>
        /\ pc' = "malloc"
        /\ UNCHANGED err
     \/ /\ err' = ENOMEM
        /\ pc' = "done"
        /\ UNCHANGED <<buf, prov, s, live, nfree>>
  /\ UNCHANGED <<ins, seps, tok, argc, args, argvp, argv, toks>>
  /\ UNCHANGED gvars /\ UNCHANGED outvars
  /\ UNCHANGED sivars

\* if (!seps) seps = " \f\n\r\t\v";
SepsInForce(sp) ==
  IF sp.isnull THEN [isnull |-> FALSE, chars |-> DefaultSeps] ELSE sp

\* args = 10; argv = malloc(...); if (!argv) { free(orig_s); return ENOMEM; }
Malloc ==
  /\ pc = "malloc"
  /\ seps' = SepsInForce(seps)
  /\ args' = 10
  /\ \/ /\ argvp' = 2
        /\ argv' = [i \in 0..9 |-> INDET]
        /\ live' = live \cup {2}
        /\ nfree' = Append(nfree, 0)
        /\ pc' = "gettok"
        /\ UNCHANGED err
     \/ /\ live' = Release(live, nfree, 1).live
        /\ nfree' = Release(live, nfree, 1).nfree
        /\ err' = ENOMEM
        /\ pc' = "done"
        /\ UNCHANGED <<argvp, argv>>
  /\ UNCHANGED <<ins, buf, prov, s, tok, argc, toks>>
  /\ UNCHANGED gvars /\ UNCHANGED outvars
  /\ UNCHANGED sivars

(* ------------------------------ gettok -------------------------------- *)

\* The locals of gettok a loop iteration reads and writes, as one record.
Frame == [buf |-> buf, prov |-> prov, o |-> o, inquote |-> inquote,
          escape |-> escape, base |-> base, cval |-> cval, brk |-> FALSE]

\* Mutant: the write position is advanced before the write: *++o = c.
Emit_PreIncrement(st, c, tag) ==
  [st EXCEPT !.buf[st.o + 1] = c, !.prov[st.o + 1] = tag, !.o = @ + 1]

\* *o++ = c, remembering which kind of statement wrote the byte
Emit(st, c, tag) ==
  [st EXCEPT !.buf[st.o] = c, !.prov[st.o] = tag, !.o = @ + 1]

\* case 'a': ... case 'v': ... default: the byte a one-character escape emits
NamedEscape(c) ==
  CASE c = 97 -> 7
    [] c = 98 -> 8
    [] c = 102 -> 12
    [] c = 110 -> 10
    [] c = 114 -> 13
    [] c = 116 -> 9
    [] c = 118 -> 11
    [] OTHER -> c

\* The three assignments to cval while digits are collected.
DigitAccum(cv, bs, c) ==
  IF isodigit(c) THEN ToChar(cv * bs + c - CH_0)
  ELSE IF isupper(c) THEN ToChar(cv * bs + c - CH_A)
  ELSE ToChar(cv * bs + c - CH_a)

\* (base == 16 && isxdigit(*p)) || isodigit(*p)
IsEscapeDigit(bs, c) == (bs = 16 /\ isxdigit(c)) \/ isodigit(c)

\* Mutant: one digit more is collected before the escape ends.
LastDigit_Four(esc) == esc >= 4

\* if (escape >= 3): the digit just read was the last one of the escape
LastDigit(esc) == esc >= 3

\* Mutant: a separator ends the token inside a quote region as well.
EndsToken_InQuote(st, c, sepset) == is_sep_space(c, sepset)

\* The test that sends the scan past a separator: !inquote && is_sep_space
EndsToken(st, c, sepset) == st.inquote = 0 /\ is_sep_space(c, sepset)

\* Mutant: only the double quote opens a quote region.
OpensQuote_DoubleOnly(st, c) == st.inquote = 0 /\ c = DQUOTE

\* !inquote && (*p == '\'' || *p == '"')
OpensQuote(st, c) == st.inquote = 0 /\ (c = SQUOTE \/ c = DQUOTE)

\* Where a copied character was read: outside any quote, or inside a
\* single- or double-quote region.
CopyTag(q) ==
  IF q = 0 THEN "copy" ELSE IF q = SQUOTE THEN "squoted" ELSE "dquoted"

\* Mutant: inside a quote region the backslash is an ordinary character.
process_char_NoEscapeInQuote(st, c, sepset) ==
  IF c = st.inquote THEN [st EXCEPT !.inquote = 0]
  ELSE IF OpensQuote(st, c) THEN [st EXCEPT !.inquote = c]
  ELSE IF c = BACKSLASH /\ st.inquote = 0 THEN [st EXCEPT !.escape = 1]
  ELSE IF EndsToken(st, c, sepset) THEN [st EXCEPT !.brk = TRUE]
  ELSE Emit(st, c, CopyTag(st.inquote))

\* process_char: the handling of a character outside an escape
process_char(st, c, sepset) ==
  IF c = st.inquote THEN [st EXCEPT !.inquote = 0]
  ELSE IF OpensQuote(st, c) THEN [st EXCEPT !.inquote = c]
  ELSE IF c = BACKSLASH THEN [st EXCEPT !.escape = 1]
  ELSE IF EndsToken(st, c, sepset) THEN [st EXCEPT !.brk = TRUE]
  ELSE Emit(st, c, CopyTag(st.inquote))

\* Mutant: an escape of no special meaning keeps its backslash.
escape_first_KeepBackslash(st, c) ==
  IF isodigit(c)
    THEN [st EXCEPT !.base = 8, !.cval = c - CH_0, !.escape = 2]
  ELSE IF c = CH_x
    THEN [st EXCEPT !.base = 16, !.cval = 0, !.escape = 2]
  ELSE IF NamedEscape(c) # c
    THEN [Emit([st EXCEPT !.cval = 0], NamedEscape(c), "esc")
            EXCEPT !.escape = 0]
  ELSE [Emit(Emit([st EXCEPT !.cval = 0], BACKSLASH, "esc"), c, "esc")
          EXCEPT !.escape = 0]

\* if (escape == 1) { ... }: the character after the backslash
escape_first(st, c) ==
  IF isodigit(c)
    THEN [st EXCEPT !.base = 8, !.cval = c - CH_0, !.escape = 2]
  ELSE IF c = CH_x
    THEN [st EXCEPT !.base = 16, !.cval = 0, !.escape = 2]
  ELSE [Emit([st EXCEPT !.cval = 0], NamedEscape(c), "esc")
          EXCEPT !.escape = 0]

\* Mutant: the character that cuts the digits short is dropped with them.
escape_digits_Swallow(st, c, sepset) ==
  IF IsEscapeDigit(st.base, c)
    THEN LET v == DigitAccum(st.cval, st.base, c)
             st1 == [st EXCEPT !.cval = v]
         IN IF LastDigit(st.escape)
              THEN [Emit(st1, v, "esc") EXCEPT !.escape = 0]
              ELSE [st1 EXCEPT !.escape = @ + 1]
    ELSE [Emit(st, st.cval, "esc") EXCEPT !.escape = 0]

\* else if (escape >= 2) { ... }: collecting the digits of an escape
escape_digits(st, c, sepset) ==
  IF IsEscapeDigit(st.base, c)
    THEN LET v == DigitAccum(st.cval, st.base, c)
             st1 == [st EXCEPT !.cval = v]
         IN IF LastDigit(st.escape)
              THEN [Emit(st1, v, "esc") EXCEPT !.escape = 0]
              ELSE [st1 EXCEPT !.escape = @ + 1]
    ELSE process_char([Emit(st, st.cval, "esc") EXCEPT !.escape = 0],
                      c, sepset)

\* One iteration of for (; *p; p++)
gettok_iter(st, c, sepset) ==
  IF st.escape # 0
    THEN IF st.escape = 1 THEN escape_first(st, c)
         ELSE escape_digits(st, c, sepset)
    ELSE process_char(st, c, sepset)

\* t = skip_spaces(*s, seps); ...; if (!*t) { *s = t; *tok = NULL; return 0; }
GettokEnter ==
  /\ pc = "gettok"
  /\ LET t0 == skip_spaces(buf, s, seps.chars) IN
       /\ t' = t0 /\ p' = t0 /\ o' = t0
       /\ inquote' = 0 /\ escape' = 0 /\ base' = 8 /\ cval' = 0
       /\ IF buf[t0] = 0
            THEN /\ s' = t0 /\ tok' = 0 /\ err' = 0
                 /\ pc' = "loop"
            ELSE /\ pc' = "scan"
                 /\ UNCHANGED <<s, tok, err>>
  /\ UNCHANGED <<ins, seps, buf, prov, argc, args, argvp, argv, toks>>
  /\ UNCHANGED heapvars /\ UNCHANGED outvars
  /\ UNCHANGED sivars

\* Mutant: the break leaves the loop without its p++.
Advance_NotOnBreak(q, brk) == IF brk THEN q ELSE q + 1

\* p++: the for loop's, or the one before the break
Advance(q, brk) == q + 1

\* The body of the scan loop at *p, then p++ (the loop's, or the one
\* before the break).
GettokScan ==
  /\ pc = "scan"
  /\ buf[p] # 0
  /\ LET r == gettok_iter(Frame, buf[p], seps.chars) IN
       /\ buf' = r.buf /\ prov' = r.prov /\ o' = r.o
       /\ inquote' = r.inquote /\ escape' = r.escape
       /\ base' = r.base /\ cval' = r.cval
       /\ pc' = IF r.brk THEN "break" ELSE "scan"
       /\ p' = Advance(p, r.brk)
  /\ UNCHANGED <<ins, seps, s, tok, err, argc, args, argvp, argv, t, toks>>
  /\ UNCHANGED heapvars /\ UNCHANGED outvars
  /\ UNCHANGED sivars

\* Mutant: the flush ignores the base, so backslash-x alone is flushed too.
FlushAtEnd_AnyBase(bs, esc) == esc > 1

\* if ((base == 8 && escape > 1) || (base == 16 && escape > 2))
FlushAtEnd(bs, esc) == (bs = 8 /\ esc > 1) \/ (bs = 16 /\ esc > 2)

\* if (inquote || escape) return -1;
Malformed(st) == st.inquote # 0 \/ st.escape # 0

\* Mutant: the cursor is handed back one position early.
CursorAfter_OneBack(tt, pp) == pp - 1

\* Mutant: the cursor is handed back where the token started.
CursorAfter_Start(tt, pp) == tt

\* *s = p
CursorAfter(tt, pp) == pp

\* The code after the loop: the flush of a digit escape cut short, *s = p,
\* the error return, or the terminator and the token.
GettokReturn ==
  /\ \/ pc = "break"
     \/ pc = "scan" /\ buf[p] = 0
  /\ LET r == IF FlushAtEnd(base, escape)
                THEN [Emit(Frame, cval, "esc") EXCEPT !.escape = 0]
                ELSE Frame
     IN /\ escape' = r.escape
        /\ s' = CursorAfter(t, p)
        /\ IF Malformed(r)
             THEN /\ err' = EBADTOK
                  /\ buf' = r.buf /\ prov' = r.prov /\ o' = r.o
                  /\ UNCHANGED <<tok, toks>>
             ELSE /\ buf' = [r.buf EXCEPT ![r.o] = 0]
                  /\ prov' = [r.prov EXCEPT ![r.o] = "nul"]
                  /\ o' = r.o
                  /\ tok' = t
                  /\ toks' = Append(toks, t)
                  /\ err' = 0
  /\ pc' = "loop"
  /\ UNCHANGED <<ins, seps, argc, args, argvp, argv, t, p, inquote, base, cval>>
  /\ UNCHANGED heapvars /\ UNCHANGED outvars
  /\ UNCHANGED sivars

(* ------------------------- str_to_argv: loop --------------------------- *)

\* The truth value of tok in while (tok && !err).  tok is unassigned when
\* the first gettok call fails, and then holds either.
TokTruth == IF tok = INDET THEN BOOLEAN ELSE {tok # 0}

\* Mutant: the array grows one token later.
NeedGrow_Late(n, cap) == n > cap - 2

\* Mutant: only one trailing slot is reserved.
NeedGrow_OffByOne(n, cap) == n >= cap - 1

\* if (argc >= args - 2)
NeedGrow(n, cap) == n >= cap - 2

\* The capacity added by one realloc
GrowBy == 10

\* argv[i] = v
Store(a, i, v) == IF i \in DOMAIN a THEN [a EXCEPT ![i] = v] ELSE a
StoreFault(a, i) == IF i \in DOMAIN a THEN {} ELSE {"write outside argv"}

\* One iteration of while (tok && !err): grow the array if the two
\* reserved slots would be touched, append tok, call gettok again.
LoopBody ==
  /\ pc = "loop"
  /\ \E tv \in TokTruth : tv /\ err = 0
  /\ IF NeedGrow(argc, args)
       THEN \/ \* realloc fails: err = ENOMEM; goto out;
               /\ err' = ENOMEM
               /\ pc' = "out"
               /\ UNCHANGED <<argc, args, argvp, argv, live, nfree, fault>>
            \/ \* realloc moves the array
               /\ argvp' = Len(nfree) + 1
               /\ live' = (live \ {argvp}) \cup {Len(nfree) + 1}
               /\ nfree' = Append([nfree EXCEPT ![argvp] = @ + 1], 0)
               /\ args' = args + GrowBy
               /\ argv' = Store([i \in 0..(args + GrowBy - 1) |->
                                   IF i < args THEN argv[i] ELSE INDET],
                                argc, tok)
               /\ fault' = fault
               /\ argc' = argc + 1
               /\ pc' = "gettok"
               /\ UNCHANGED err
            \/ \* realloc grows the array in place
               /\ args' = args + GrowBy
               /\ argv' = Store([i \in 0..(args + GrowBy - 1) |->
                                   IF i < args THEN argv[i] ELSE INDET],
                                argc, tok)
               /\ fault' = fault
               /\ argc' = argc + 1
               /\ pc' = "gettok"
               /\ UNCHANGED <<err, argvp, live, nfree>>
       ELSE /\ argv' = Store(argv, argc, tok)
            /\ fault' = fault \cup StoreFault(argv, argc)
            /\ argc' = argc + 1
            /\ pc' = "gettok"
            /\ UNCHANGED <<err, args, argvp, live, nfree>>
  /\ UNCHANGED <<ins, seps, buf, prov, s, tok, toks, r_argc, r_argv, rd>>
  /\ UNCHANGED gvars
  /\ UNCHANGED sivars

\* The loop is left: argv[argc] = NULL; argv[argc + 1] = orig_s;
LoopExit ==
  /\ pc = "loop"
  /\ \E tv \in TokTruth : ~(tv /\ err = 0)
  /\ argv' = Store(Store(argv, argc, 0), argc + 1, 1)
  /\ fault' = fault \cup StoreFault(argv, argc) \cup StoreFault(argv, argc + 1)
  /\ pc' = "out"
  /\ UNCHANGED <<ins, seps, buf, prov, s, tok, err, argc, args, argvp, toks,
                 r_argc, r_argv, rd>>
  /\ UNCHANGED gvars /\ UNCHANGED heapvars
  /\ UNCHANGED sivars

\* Mutant: the error path forgets free(argv).
ErrorFrees_OnlyBuffer == <<1>>

\* The blocks the error path releases: free(orig_s); free(argv);
ErrorFrees == <<1, argvp>>

RECURSIVE ReleaseAll(_, _, _)
ReleaseAll(lv, nf, bs) ==
  IF bs = <<>> THEN [live |-> lv, nfree |-> nf]
  ELSE LET h == Release(lv, nf, Head(bs))
       IN ReleaseAll(h.live, h.nfree, Tail(bs))

\* Mutant: the outputs are written on the error path as well.
Results_Always(e) == [argc |-> argc, argv |-> argvp]

\* What reaches the caller's *r_argc and *r_argv for a given err
Results(e) ==
  IF e # 0 THEN [argc |-> r_argc, argv |-> r_argv]
  ELSE [argc |-> argc, argv |-> argvp]

\* out: if (err) { free(orig_s); free(argv); } else { *r_argc = argc;
\* *r_argv = argv; } return err;
Out ==
  /\ pc = "out"
  /\ IF err # 0
       THEN LET h == ReleaseAll(live, nfree, ErrorFrees)
            IN live' = h.live /\ nfree' = h.nfree
       ELSE UNCHANGED <<live, nfree>>
  /\ r_argc' = Results(err).argc
  /\ r_argv' = Results(err).argv
  /\ pc' = "done"
  /\ UNCHANGED <<ins, seps, buf, prov, s, tok, err, argc, args, argvp, argv,
                 toks, rd, fault>>
  /\ UNCHANGED gvars
  /\ UNCHANGED sivars

(* -------------------------- str_to_argv_free --------------------------- *)

\* Mutant: the buffer is looked for in the slot of the end marker.
BufferSlot_Terminator(n) == n

\* The slot of the array in which str_to_argv_free looks for the buffer
BufferSlot(n) == n + 1

\* free(ptr) of a pointer into the working buffer: only its first byte is
\* the address strdup returned.
FreeString(lv, nf, ptr) ==
  IF ptr = 1 THEN Release(lv, nf, 1) ELSE [live |-> lv, nfree |-> nf]
FreeStringFault(ptr) == IF ptr = 1 THEN {} ELSE {"free of a pointer not allocated"}

\* The caller releases what str_to_argv gave it (or its own NULL after a
\* failure): str_to_argv_free(r_argc, r_argv).
StrToArgvFree ==
  /\ pc = "done"
  /\ IF r_argv = 0
       THEN UNCHANGED <<live, nfree, rd, fault>>
       ELSE LET k == BufferSlot(r_argc)
                ptr == IF k \in DOMAIN argv THEN argv[k] ELSE INDET
                h1 == IF ptr # 0 THEN FreeString(live, nfree, ptr)
                      ELSE [live |-> live, nfree |-> nfree]
                h2 == Release(h1.live, h1.nfree, r_argv)
            IN /\ rd' = k
               /\ live' = h2.live /\ nfree' = h2.nfree
               /\ fault' = fault \cup
                    (IF ptr # 0 THEN FreeStringFault(ptr) ELSE {})
  /\ pc' = "released"
  /\ UNCHANGED <<ins, seps, buf, prov, s, tok, err, argc, args, argvp, argv,
                 toks, r_argc, r_argv>>
  /\ UNCHANGED gvars
  /\ UNCHANGED sivars

(* ---------------------------- specification ---------------------------- *)

Next ==
  \/ Strdup
  \/ Malloc
  \/ GettokEnter
  \/ GettokScan
  \/ GettokReturn
  \/ LoopBody
  \/ LoopExit
  \/ Out
  \/ StrToArgvFree

Spec == Init /\ [][Next]_vars

\* The call is sequential code with nothing to wait for: while a statement
\* is left to execute, one is executed.
FairSpec == Spec /\ WF_vars(Next)

(* ------------------------------ scan_int ------------------------------- *)

NumAlphabet == {CH_0, 49, 57, CH_a}

\* The string of the decimal digits ds.
Dec(ds) == [i \in 1..Len(ds) |-> CH_0 + ds[i]]

\* Arguments around the largest int and around 2^32, and one with leading
\* zeros.
LongNums ==
  { Dec(<<2,1,4,7,4,8,3,6,4,7>>), Dec(<<2,1,4,7,4,8,3,6,4,8>>),
    Dec(<<2,1,4,7,4,8,3,6,5,0>>), Dec(<<4,2,9,4,9,6,7,2,9,5>>),
    Dec(<<4,2,9,4,9,6,7,2,9,6>>), Dec(<<9,9,9,9,9,9,9,9,9,9,9>>),
    Dec(<<0,0,0,0,0,0,0,0,0,0,0,4,2>>), Dec(<<2,1,4,7,4,8,3,6,4>>),
    Dec(<<1,0,0,0,0,0,0,0,0,0>>) \o <<CH_a>> }

NumInputs == UNION {SeqsOfLen(NumAlphabet, n) : n \in 0..MaxNum} \cup LongNums

\* *str
NumAt(x, i) == IF i <= Len(x) THEN x[i] ELSE 0

\* (rv * 10) + d does not fit an int: the product or the sum overflows.
Overflows(v, d) ==
  \/ v > INT_MAX \div 10
  \/ v < -(INT_MAX \div 10)
  \/ v = INT_MAX \div 10 /\ d > INT_MAX % 10

\* (rv * 10) + d in 32 bits, two's complement, computed on 16-bit halves.
Wrapped(v, d) ==
  LET lo == (v % 65536) * 10 + d
      hi == (((v \div 65536) % 65536) * 10 + (lo \div 65536)) % 65536
  IN (IF hi >= 32768 THEN hi - 65536 ELSE hi) * 65536 + (lo % 65536)

InitScanInt ==
  /\ num \in NumInputs
  /\ pc = "scan_int"
  /\ str = 1 /\ rv = 0 /\ ret = INDET
  /\ ins = <<>> /\ seps = [isnull |-> TRUE, chars |-> {}]
  /\ Fresh

\* int rv = 0; if (*str == '\0') return -1;
ScanIntEnter ==
  /\ pc = "scan_int"
  /\ IF NumAt(num, str) = 0
       THEN ret' = -1 /\ pc' = "returned"
       ELSE ret' = ret /\ pc' = "switch"
  /\ UNCHANGED <<num, str, rv>>
  /\ UNCHANGED <<ins, seps, buf, prov, s, tok, err, argc, args, argvp, argv,
                 toks>>
  /\ UNCHANGED gvars /\ UNCHANGED heapvars /\ UNCHANGED outvars

\* case '0' ... '9': rv = (rv * 10) + ((*str) - '0'); break; ... str++;
\* A signed overflow is undefined: the value wraps, or the call traps.
ScanIntDigit ==
  /\ pc = "switch"
  /\ isdigit(NumAt(num, str))
  /\ LET d == NumAt(num, str) - CH_0 IN
       IF Overflows(rv, d)
         THEN \/ rv' = Wrapped(rv, d) /\ str' = str + 1 /\ pc' = pc
              \/ pc' = "trap" /\ UNCHANGED <<rv, str>>
         ELSE rv' = rv * 10 + d /\ str' = str + 1 /\ pc' = pc
  /\ UNCHANGED <<num, ret>>
  /\ UNCHANGED <<ins, seps, buf, prov, s, tok, err, argc, args, argvp, argv,
                 toks>>
  /\ UNCHANGED gvars /\ UNCHANGED heapvars /\ UNCHANGED outvars

\* case '\0': return rv; default: return -1;
ScanIntReturn ==
  /\ pc = "switch"
  /\ ~isdigit(NumAt(num, str))
  /\ ret' = IF NumAt(num, str) = 0 THEN rv ELSE -1
  /\ pc' = "returned"
  /\ UNCHANGED <<num, str, rv>>
  /\ UNCHANGED <<ins, seps, buf, prov, s, tok, err, argc, args, argvp, argv,
                 toks>>
  /\ UNCHANGED gvars /\ UNCHANGED heapvars /\ UNCHANGED outvars

NextScanInt ==
  \/ ScanIntEnter
  \/ ScanIntDigit
  \/ ScanIntReturn

SpecScanInt == InitScanInt /\ [][NextScanInt]_vars

(* ------------------- definitions used by the properties ---------------- *)

Done == pc \in {"done", "released"}
Succeeded == Done /\ err = 0

\* Every block ever allocated was released exactly once and none is live.
AllReleasedOnce == live = {} /\ \A b \in 1..Len(nfree) : nfree[b] = 1

\* The C string at index k of b: the indices of its bytes, terminator excluded.
RECURSIVE StrEnd(_, _)
StrEnd(b, k) == IF b[k] = 0 THEN k ELSE StrEnd(b, k + 1)
StrBytes(b, k) == k..(StrEnd(b, k) - 1)

\* The positions of the bytes of all returned tokens.
TokenBytes == UNION {StrBytes(buf, argv[i]) : i \in 0..(argc - 1)}

Quotes == {SQUOTE, DQUOTE}
\* A separator set that holds none of the tokenizer's own special characters.
PlainSeps == seps.chars \cap (Quotes \cup {BACKSLASH}) = {}

(* The parse state of the design, as a tagged mode, run over the whole      *)
(* input: q the open quote (0: none), e the escape form in progress, n the  *)
(* digits collected by it, inrun whether a run of non-separator characters  *)
(* is open and runs how many were opened.                                   *)
RefInit == [q |-> 0, e |-> "none", n |-> 0, inrun |-> FALSE, runs |-> 0]

RefPlain(m, c, sepset) ==
  IF m.q = 0 /\ c \in sepset THEN [m EXCEPT !.inrun = FALSE]
  ELSE LET m1 == IF m.inrun THEN m
                 ELSE [m EXCEPT !.inrun = TRUE, !.runs = @ + 1]
       IN IF c = m.q THEN [m1 EXCEPT !.q = 0]
          ELSE IF m.q = 0 /\ c \in Quotes THEN [m1 EXCEPT !.q = c]
          ELSE IF c = BACKSLASH THEN [m1 EXCEPT !.e = "start", !.n = 0]
          ELSE m1

RefStep(m, c, sepset) ==
  CASE m.e = "start" ->
         IF c \in OctDigits THEN [m EXCEPT !.e = "oct", !.n = 1]
         ELSE IF c = CH_x THEN [m EXCEPT !.e = "hex", !.n = 0]
         ELSE [m EXCEPT !.e = "none"]
    [] m.e = "oct" ->
         IF c \in OctDigits
           THEN IF m.n + 1 = 3 THEN [m EXCEPT !.e = "none"]
                ELSE [m EXCEPT !.n = @ + 1]
           ELSE RefPlain([m EXCEPT !.e = "none"], c, sepset)
    [] m.e = "hex" ->
         IF c \in HexDigits
           THEN IF m.n + 1 = 2 THEN [m EXCEPT !.e = "none"]
                ELSE [m EXCEPT !.n = @ + 1]
           ELSE RefPlain([m EXCEPT !.e = "none"], c, sepset)
    [] OTHER -> RefPlain(m, c, sepset)

RECURSIVE RefScan(_, _, _, _)
RefScan(m, in, i, sepset) ==
  IF i > Len(in) THEN m ELSE RefScan(RefStep(m, in[i], sepset), in, i + 1, sepset)

RefEnd == RefScan(RefInit, ins, 1, seps.chars)

\* The input ends inside a quote, right after a backslash, or right after
\* backslash-x.
RefMalformed(m) ==
  m.q # 0 \/ m.e = "start" \/ (m.e = "hex" /\ m.n = 0)

(* ------------------------------- claims -------------------------------- *)

\* C1: whenever str_to_argv returns a non-zero error (malformed input, or a
\* failed strdup, malloc or realloc), every block allocated during the call
\* has been freed exactly once and no allocation of the call is live.
C1_ErrorReleasesAll ==
  (pc = "done" /\ err # 0) => (AllReleasedOnce /\ fault = {})

\* A realloc failed after tokens had been appended.
C1_Witness ==
  pc = "done" /\ err = ENOMEM /\ argc >= 8 /\ Len(nfree) = 2 /\ AllReleasedOnce

\* C2: on a non-zero return *r_argc and *r_argv are left as the caller set
\* them; they are written only on the return-0 path.
C2_OutputsOnlyOnSuccess ==
  (r_argc # -1 \/ r_argv # 0) => Succeeded

\* A malformed input was rejected after tokens had been stored.
C2_Witness ==
  pc = "done" /\ err = EBADTOK /\ argc > 0 /\ r_argc = -1 /\ r_argv = 0

\* The scan has reached the terminator of the buffer.
AtEndOfInput == pc = "scan" /\ buf[p] = 0
\* Digits collected by the escape in progress, read off the escape counter.
OctDigitsSeen == IF base = 8 /\ escape >= 2 THEN escape - 1 ELSE 0
HexDigitsSeen == IF base = 16 /\ escape >= 2 THEN escape - 2 ELSE 0
AfterBackslash == escape = 1
AfterHexX == base = 16 /\ escape = 2

C3_Return ==
  (pc \in {"scan", "break"} /\ pc' = "loop") =>
    /\ err' = EBADTOK <=>
         (AtEndOfInput /\ (inquote # 0 \/ AfterBackslash \/ AfterHexX))
    /\ (AtEndOfInput /\ inquote = 0 /\ (OctDigitsSeen >= 1 \/ HexDigitsSeen >= 1))
         => /\ err' = 0 /\ tok' = t
            /\ buf'[o] = cval /\ prov'[o] = "esc"
            /\ buf'[o + 1] = 0 /\ prov'[o + 1] = "nul"

C3_Result ==
  (pc = "done" /\ err # ENOMEM) =>
    /\ err \in {0, EBADTOK}
    /\ PlainSeps => (err = EBADTOK <=> RefMalformed(RefEnd))

\* C3: without allocation failure str_to_argv fails as malformed exactly
\* when the end of the input is reached inside a quote region, right after
\* the backslash that started an escape, or right after backslash-x with no
\* hex digit; when it is reached after at least one octal or hex digit,
\* outside any quote, the accumulated value is flushed as the last byte of
\* the token and the call succeeds.
C3_MalformedIffUnfinished == [][C3_Return]_vars /\ []C3_Result

\* "a\x1": the hex escape is cut short by the end of the input and flushed.
C3_Witness ==
  /\ pc = "done" /\ err = 0
  /\ ins = <<CH_a, BACKSLASH, CH_x, 49>>
  /\ buf[2] = 1 /\ prov[2] = "esc" /\ buf[3] = 0

\* C4: on success slots 0..argc-1 hold the tokens gettok produced, non-null
\* and in input order, slot argc holds NULL (and no earlier slot does), slot
\* argc+1 holds the pointer to the working buffer, and argc is the number
\* of tokens gettok produced.
C4_VectorLayout ==
  (pc = "done" /\ err = 0) =>
    /\ argc = Len(toks)
    /\ r_argc = argc /\ r_argv = argvp
    /\ (argc + 1) \in DOMAIN argv
    /\ \A i \in 0..(argc - 1) : argv[i] = toks[i + 1] /\ argv[i] >= 1
    /\ \A i \in 0..(argc - 2) : argv[i] < argv[i + 1]
    /\ argv[argc] = 0
    /\ argv[argc + 1] = 1
    /\ fault = {}

\* A vector that was reallocated before it was finished.
C4_Witness == pc = "done" /\ err = 0 /\ argc >= 9 /\ args = 20

\* C5: one call str_to_argv_free(argc, argv) on a successful result frees
\* the working buffer found in slot argc+1 and the token array, each exactly
\* once, and nothing of the parse stays allocated; with a null argv it
\* frees nothing and reads nothing.
C5_FreePairsBoth ==
  (pc = "released") =>
    IF r_argv = 0
      THEN rd = -1 /\ AllReleasedOnce /\ fault = {}
      ELSE rd = r_argc + 1 /\ AllReleasedOnce /\ fault = {}

\* A result with tokens in a reallocated array was released.
C5_Witness ==
  pc = "released" /\ r_argv # 0 /\ r_argc >= 9 /\ live = {} /\ Len(nfree) >= 3

\* C6 as stated: for every well-formed input and every separator set the
\* number of tokens equals the number of maximal runs of characters holding
\* no separator read outside quotes and escapes.
C6_AnySeparatorSet ==
  (pc = "done" /\ err = 0) => argc = RefEnd.runs

\* C6, amended: the same for every separator set that holds no quote
\* character and no backslash; the empty input gives 0 tokens.
C6_TokenCountIsRunCount ==
  /\ (pc = "done" /\ err = 0 /\ PlainSeps) => argc = RefEnd.runs
  /\ (pc = "done" /\ ins = <<>> /\ err # ENOMEM) => (err = 0 /\ argc = 0)

\* Leading, repeated and trailing separators around two tokens.
C6_Witness ==
  /\ pc = "done" /\ err = 0 /\ PlainSeps
  /\ ins = <<32, 32, 97, 32, 32, 32, 98, 32, 32>>
  /\ argc = 2 /\ RefEnd.runs = 2

\* C7: a byte of a returned token that is a separator was copied from
\* inside a quote region or produced by an escape; no separator read
\* outside quotes and escapes is written to a token.
C7_NoBareSeparator ==
  (pc = "done" /\ err = 0) =>
    \A k \in TokenBytes :
      buf[k] \in seps.chars => prov[k] \in {"squoted", "dquoted", "esc"}

\* a "b c" d: the second token holds a separator copied from a quote region.
C7_Witness ==
  /\ pc = "done" /\ err = 0 /\ argc = 3
  /\ \E k \in StrBytes(buf, argv[1]) :
       buf[k] \in seps.chars /\ prov[k] = "dquoted"

\* C8 as stated: a quote character is in a token only if an escape
\* produced it.
C8_QuoteOnlyEscaped ==
  (pc = "done" /\ err = 0) =>
    \A k \in TokenBytes : buf[k] \in Quotes => prov[k] = "esc"

\* C8, amended: a quote character is in a token only if an escape produced
\* it or it was copied from inside a quote region of the other kind; the
\* quote characters that open or close a region are never written.
C8_QuoteEscapedOrOtherKind ==
  (pc = "done" /\ err = 0) =>
    \A k \in TokenBytes :
      /\ buf[k] = SQUOTE => prov[k] \in {"esc", "dquoted"}
      /\ buf[k] = DQUOTE => prov[k] \in {"esc", "squoted"}

\* "'" : a single quote kept from a double-quote region.
C8_Witness ==
  /\ pc = "done" /\ err = 0 /\ argc = 1
  /\ ins = <<DQUOTE, SQUOTE, DQUOTE>>
  /\ buf[1] = SQUOTE /\ prov[1] = "dquoted" /\ buf[2] = 0

\* The backslash that opens the input starts an escape: it is not skipped
\* as a leading separator.
LeadingEscape == BACKSLASH \notin seps.chars

HexValue(c) ==
  IF c \in 48..57 THEN c - 48 ELSE IF c \in 97..102 THEN c - 87 ELSE c - 55

\* C9: backslash x h1 h2 decodes to the one byte 16*hexvalue(h1) +
\* hexvalue(h2), with a-f and A-F worth 10..15; a third hex digit is not
\* part of the escape.
C9_HexEscapeValue ==
  (pc = "done" /\ err = 0 /\ ins \in HexInputs /\ LeadingEscape) =>
    /\ argc = 1
    /\ buf[1] = 16 * HexValue(ins[3]) + HexValue(ins[4])
    /\ prov[1] = "esc"
    /\ IF Len(ins) = 4 THEN buf[2] = 0 /\ prov[2] = "nul"
       ELSE buf[2] = ins[5] /\ prov[2] = "copy" /\ buf[3] = 0

\* The octal digits that follow the backslash of an input, three at most.
RECURSIVE OctLead(_, _)
OctLead(in, i) ==
  IF i <= Len(in) /\ i <= 4 /\ in[i] \in OctDigits
    THEN <<in[i]>> \o OctLead(in, i + 1) ELSE <<>>

RECURSIVE OctValue(_)
OctValue(d) ==
  IF d = <<>> THEN 0
  ELSE 8 * OctValue(SubSeq(d, 1, Len(d) - 1)) + (d[Len(d)] - 48)

\* C10: one to three octal digits after a backslash decode to the one byte
\* that is their octal value modulo 256; a fourth octal digit (or any
\* character that ends a shorter run) is not part of the escape and is
\* copied as an ordinary character.
C10_OctalEscapeValue ==
  (pc = "done" /\ err # ENOMEM /\ ins \in OctInputs /\ LeadingEscape) =>
    LET d == OctLead(ins, 2) IN
      /\ err = 0 /\ argc = 1
      /\ buf[1] = OctValue(d) % 256
      /\ prov[1] = "esc"
      /\ IF Len(ins) = Len(d) + 1 THEN buf[2] = 0 /\ prov[2] = "nul"
         ELSE /\ buf[2] = ins[Len(d) + 2] /\ prov[2] = "copy"
              /\ buf[3] = 0 /\ prov[3] = "nul"

\* \7777: the value 511 is reduced to 255 and the fourth 7 is copied.
C10_Witness ==
  /\ pc = "done" /\ err = 0
  /\ ins = <<BACKSLASH, 55, 55, 55, 55>>
  /\ buf[1] = 255 /\ buf[2] = 55 /\ buf[3] = 0


\* The number of bytes of the buffer that were written by an escape.
EscBytes(pv) == Cardinality({k \in 1..Len(pv) : pv[k] = "esc"})

\* The escape in progress ends in this step: the counter goes back to 0, or
\* the character that cut the digits short was a backslash and opened the
\* next escape.
EscapeEnds == escape # 0 /\ (escape' = 0 \/ (escape >= 2 /\ escape' = 1))

\* A step of gettok: one character of the scan, or the return.
GettokStep == pc \in {"scan", "break"}

\* Every step of gettok that ends an escape writes one byte for it, and no
\* other step writes an escape byte.
C11_Step ==
  GettokStep =>
    EscBytes(prov') = EscBytes(prov) + (IF EscapeEnds THEN 1 ELSE 0)

\* The escapes the whole input starts, by the parse state of the design:
\* the prefixes after which the scan stands right behind a backslash.
RefEscapes ==
  Cardinality({i \in 1..Len(ins) :
     RefScan(RefInit, SubSeq(ins, 1, i), 1, seps.chars).e = "start"})

\* When gettok has returned a token no escape is in progress, and a
\* successful parse under a plain separator set holds as many escape bytes
\* as the input starts escapes.
C11_Final ==
  /\ (pc = "loop" /\ err = 0) => escape = 0
  /\ (Succeeded /\ PlainSeps) => EscBytes(prov) = RefEscapes

\* C11: every escape sequence started by a backslash (named, octal, hex or
\* literal-other; completed, interrupted by a non-digit, or cut short by the
\* end of input with at least one digit) contributes exactly one byte to the
\* output of its token, and the escape state is back to not escaping when
\* the token is finalized.
C11_OneBytePerEscape == [][C11_Step]_vars /\ []C11_Final

\* An octal escape cut by the backslash of the next one, which the end of
\* input cuts short: two escapes, two bytes.
C11_Witness ==
  /\ Succeeded /\ ins = <<BACKSLASH, 49, BACKSLASH, 49>>
  /\ prov[1] = "esc" /\ prov[2] = "esc" /\ prov[3] = "nul"
  /\ buf[1] = 1 /\ buf[2] = 1 /\ EscBytes(prov) = 2

AllDigits(x) == \A i \in 1..Len(x) : isdigit(x[i])

\* The decimal numeral of a natural number.
RECURSIVE Numeral(_)
Numeral(v) ==
  IF v < 10 THEN <<CH_0 + v>> ELSE Append(Numeral(v \div 10), CH_0 + (v % 10))

RECURSIVE StripZeros(_)
StripZeros(x) ==
  IF Len(x) > 1 /\ x[1] = CH_0 THEN StripZeros(Tail(x)) ELSE x

\* v is the non-negative integer the digit string x denotes.
Denotes(v, x) == v >= 0 /\ Numeral(v) = StripZeros(x)

\* C12: scan_int returns -1 if and only if its argument is empty or contains
\* a character that is not a decimal digit; for every non-empty string of
\* decimal digits it returns the non-negative integer the digits denote.
C12_ScanIntValue ==
  /\ pc # "trap"
  /\ pc = "returned" =>
       /\ ret = -1 <=> (num = <<>> \/ ~AllDigits(num))
       /\ (num # <<>> /\ AllDigits(num)) => Denotes(ret, num)

\* The characters of the input from position a to position b.
InputSlice(a, b) == SubSeq(ins, a, b)

\* The parse state of the design after the characters a..b, started afresh.
RefOver(a, b) == RefScan(RefInit, InputSlice(a, b), 1, seps.chars)

\* gettok has just returned a token.
TokenReturned == pc = "loop" /\ err = 0 /\ tok # 0 /\ tok # INDET

\* C13: after every gettok call that returns a token, the cursor is either
\* at the end of the buffer or exactly one position past the single
\* Normal-mode separator that ended the token; that separator is not written
\* to the token, and the separators after it are left in place for the next
\* call to skip.
C13_CursorAfterToken ==
  TokenReturned =>
    \/ s = Len(buf) /\ buf[s] = 0
    \/ /\ tok < s - 1 /\ s <= Len(buf)
       /\ ins[s - 1] \in seps.chars
       /\ o <= s - 1
       /\ prov[s - 1] \in {"in", "nul"}
       /\ \A k \in s..Len(ins) : buf[k] = ins[k] /\ prov[k] = "in"
       /\ PlainSeps =>
            LET m == RefOver(tok, s - 2) IN
              /\ m.runs = 1 /\ m.inrun
              /\ ~RefStep(m, ins[s - 1], seps.chars).inrun

\* A token ended by the first of two separators: the cursor stands on the
\* second one.
C13_Witness ==
  /\ TokenReturned /\ s <= Len(ins)
  /\ ins[s - 1] \in seps.chars /\ buf[s] \in seps.chars
  /\ Len(toks) = 1

\* The digit class of the escape in progress.
EscapeClass == IF base = 16 THEN HexDigits ELSE OctDigits

\* The scan reads, while it collects the digits of an escape, a character
\* outside the digit class.
Interrupted ==
  pc = "scan" /\ buf[p] # 0 /\ escape >= 2 /\ buf[p] \notin EscapeClass

\* What the step does to the interrupting character c once the value is
\* written at o: what the scan does to c outside an escape.
AsInNormalMode(c) ==
  IF c = inquote THEN
    inquote' = 0 /\ escape' = 0 /\ o' = o + 1 /\ pc' = "scan"
  ELSE IF inquote = 0 /\ c \in Quotes THEN
    inquote' = c /\ escape' = 0 /\ o' = o + 1 /\ pc' = "scan"
  ELSE IF c = BACKSLASH THEN
    inquote' = inquote /\ escape' = 1 /\ o' = o + 1 /\ pc' = "scan"
  ELSE IF inquote = 0 /\ c \in seps.chars THEN
    inquote' = inquote /\ escape' = 0 /\ o' = o + 1 /\ pc' = "break"
  ELSE
    /\ inquote' = inquote /\ escape' = 0 /\ o' = o + 2 /\ pc' = "scan"
    /\ buf'[o + 1] = c /\ prov'[o + 1] = CopyTag(inquote)

C14_Step ==
  Interrupted =>
    /\ buf'[o] = cval /\ prov'[o] = "esc"
    /\ p' = p + 1
    /\ AsInNormalMode(buf[p])
    /\ \A k \in 1..Len(buf) :
         (k < o \/ k >= o' ) => (buf'[k] = buf[k] /\ prov'[k] = prov[k])

\* C14: when the collection of octal or hex digits is interrupted by a
\* character outside the digit class before the digit limit is reached,
\* gettok emits the accumulated value as one byte, leaves escape mode, and
\* then handles the interrupting character exactly as outside an escape
\* with the current quote state: a separator outside a quote ends the token,
\* a quote character opens or closes a region, a backslash starts a new
\* escape, any other character is copied.
C14_InterruptedEscape == [][C14_Step]_vars

\* An octal escape of one digit cut by a separator, which ends the token.
C14_Witness ==
  /\ pc = "break" /\ o = t + 1 /\ p = t + 3
  /\ ins[t] = BACKSLASH /\ ins[t + 1] \in OctDigits
  /\ ins[t + 2] \in seps.chars
  /\ prov[t] = "esc" /\ buf[t] = ins[t + 1] - CH_0

\* gettok has just returned the malformed-input failure.
MalformedReturned == pc = "loop" /\ err = EBADTOK

\* C15: gettok returns the malformed-input failure only when the scan
\* position is at the terminating end of the buffer: whenever the scan loop
\* stops at a separator, the quote state is not in quote and the escape
\* counter is 0.
C15_MalformedOnlyAtEnd ==
  /\ pc = "break" =>
       /\ inquote = 0 /\ escape = 0
       /\ ins[p - 1] \in seps.chars
  /\ MalformedReturned =>
       /\ p = Len(buf) /\ buf[p] = 0 /\ s = p
       /\ inquote # 0 \/ escape # 0

\* The second token of the input is malformed: the first call stopped at a
\* separator and succeeded, the second ran to the end of the buffer.
C15_Witness ==
  /\ MalformedReturned /\ Len(toks) = 1
  /\ ins[toks[1] + 1] \in seps.chars /\ inquote # 0

\* The array has been allocated.
ArrayAllocated == argvp # 0

\* C16: in str_to_argv, at every point after the array is allocated,
\* argc + 2 <= args: every token is stored at an index below args - 2, and
\* the final writes at argc and argc + 1 are inside the array, for any
\* number of tokens (the capacity starts at 10 and grows by 10).
C16_TwoSlotsReserved ==
  ArrayAllocated =>
    /\ argc + 2 <= args
    /\ DOMAIN argv = 0..(args - 1)
    /\ args % GrowBy = 0 /\ args - GrowBy < argc + 2 + GrowBy
    /\ \A i \in 0..(argc - 1) : i < args - 2 /\ argv[i] = toks[i + 1]
    /\ "write outside argv" \notin fault
    /\ (pc = "out" /\ err # ENOMEM) => (argv[argc] = 0 /\ argv[argc + 1] = 1)

\* Eighteen tokens fill the array grown once: the final writes take its
\* last two slots.
C16_Witness ==
  /\ pc = "out" /\ argc = 18 /\ args = 20
  /\ argv[18] = 0 /\ argv[19] = 1 /\ argv[17] = toks[18]

\* The positions of the buffer this step writes.
Written == {k \in 1..Len(buf) : buf'[k] # buf[k] \/ prov'[k] # prov[k]}

\* A scan step writes at or before the character it reads; the return at
\* end of input writes (the flush, the terminator) at or before the
\* terminator of the buffer; the return after a break writes strictly
\* before the cursor it hands back.
C17_Step ==
  /\ (pc = "scan" /\ buf[p] # 0) => \A k \in Written : t <= k /\ k <= p
  /\ (pc = "scan" /\ buf[p] = 0) => \A k \in Written : t <= k /\ k <= p
  /\ pc = "break" => \A k \in Written : t <= k /\ k < p /\ k < s'

C17_Positions ==
  /\ pc \in {"scan", "break"} => (t <= o /\ o <= p /\ p <= Len(buf))
  /\ pc = "break" => o < p
  /\ TokenReturned => (prov[o] = "nul" /\ buf[o] = 0 /\ o <= s)

\* C17: during every gettok scan the write position never exceeds the read
\* position, for every write including the flush of an escape at end of
\* input and the token terminator, so the in-place compaction never
\* overwrites a character it has not yet scanned; when a token is ended by
\* a separator the terminator is written strictly before the cursor handed
\* to the next call.
C17_WriteBehindRead == [][C17_Step]_vars /\ []C17_Positions

\* A token without quote or escape, ended by a separator: every write was
\* at the read position, the terminator took the place of the separator.
C17_Witness ==
  /\ TokenReturned /\ o = s - 1 /\ o > tok
  /\ ins[o] \in seps.chars /\ prov[o] = "nul"
  /\ \A k \in tok..(o - 1) : prov[k] = "copy"

\* The scan reads the character buf[p].
ScanStep == pc = "scan" /\ buf[p] # 0

\* The step writes the character it reads as one escape byte and goes on
\* with the token, the quote state as it was.
EmitsLiterally ==
  /\ buf'[o] = buf[p] /\ prov'[o] = "esc" /\ o' = o + 1
  /\ escape' = 0 /\ inquote' = inquote /\ pc' = "scan"

\* With no escape in progress a backslash starts one, in or out of a quote
\* region, and writes nothing.
StartsEscape ==
  (ScanStep /\ escape = 0 /\ buf[p] = BACKSLASH) =>
    (escape' = 1 /\ inquote' = inquote /\ o' = o /\ pc' = "scan"
     /\ Written = {})

\* Right after the backslash the quote character of the open region is
\* written literally and the region stays open.
EscapedQuote ==
  (ScanStep /\ escape = 1 /\ inquote # 0 /\ buf[p] = inquote) => EmitsLiterally

\* The characters a backslash gives a meaning of their own: the first digit
\* of an octal escape, the x of a hex escape, the letters of the named
\* escapes a b f n r t v.
EscapeMeaning == OctDigits \cup {CH_x} \cup {97, 98, 102, 110, 114, 116, 118}

\* C18 as stated: a backslash starts an escape regardless of the quote
\* state; inside a quote region a backslash followed by the matching quote
\* emits that quote literally and does not close the region, and a
\* backslash followed by a separator emits the separator literally without
\* ending the token, whatever the separator.
C18_EscapedSeparatorLiteral ==
  [][/\ StartsEscape
     /\ EscapedQuote
     /\ (ScanStep /\ escape = 1 /\ buf[p] \in seps.chars) => EmitsLiterally
    ]_vars

\* C18, amended: as above, but a separator that has an escape meaning of
\* its own (an octal digit, x, or one of a b f n r t v) is taken as that
\* escape; in every case the token is not ended.
C18_EscapeInAnyQuoteState ==
  [][/\ StartsEscape
     /\ EscapedQuote
     /\ (ScanStep /\ escape = 1 /\ buf[p] \in seps.chars) =>
          /\ pc' = "scan" /\ inquote' = inquote
          /\ buf[p] \notin EscapeMeaning => EmitsLiterally
    ]_vars

\* Inside a double-quote region an escaped double quote has been written
\* and the region is still open.
C18_Witness ==
  /\ pc = "scan" /\ inquote = DQUOTE /\ escape = 0 /\ o > t
  /\ prov[o - 1] = "esc" /\ buf[o - 1] = DQUOTE
  /\ ins[p - 1] = DQUOTE /\ ins[p - 2] = BACKSLASH

\* How much of the call is left: ten for every position of the buffer not
\* yet passed by the scan (by the cursor, between gettok calls), plus the
\* steps left at the position reached.
Measure ==
  LET left(x) == 10 * (Len(ins) + 2 - x) IN
  CASE pc = "strdup" -> left(0) + 9
    [] pc = "malloc" -> left(0) + 8
    [] pc = "gettok" -> left(s) + 5
    [] pc = "scan" -> left(p) + (IF buf[p] # 0 THEN 4 ELSE 7)
    [] pc = "break" -> left(p) + 7
    [] pc = "loop" /\ tok \notin {0, INDET} /\ err = 0 -> left(s) + 6
    [] pc = "loop" -> 3
    [] pc = "out" -> 2
    [] pc = "done" -> 1
    [] OTHER -> 0

\* A gettok call that returns a token moves the cursor forward by at least
\* one position, and no call moves it backward.
C19_Step ==
  /\ Measure' < Measure
  /\ (pc \in {"scan", "break"} /\ pc' = "loop" /\ err' = 0) =>
       (s' >= s + 1 /\ tok' # 0)
  /\ (pc = "gettok" /\ pc' = "loop") => (s' >= s /\ tok' = 0)

C19_Bounded ==
  /\ Measure >= 0
  /\ buf # <<>> => (1 <= s /\ s <= Len(buf))
  /\ Len(toks) <= Len(ins) /\ argc <= Len(toks)
  /\ ~Done => ENABLED Next

\* C19: str_to_argv terminates for every finite input: every gettok call
\* that returns a token advances the cursor by at least one position and
\* never moves it past the end of the buffer, so the driver loop performs at
\* most as many token-producing iterations as the input has characters.
C19_Terminates == [][C19_Step]_vars /\ []C19_Bounded /\ <>Done

\* The call has returned after nineteen token-producing iterations over an
\* input of thirty-seven characters.
C19_Witness ==
  /\ Done /\ err = 0 /\ argc = 19 /\ Len(ins) = 37 /\ s = Len(buf)

\* The terminator gettok wrote for the token that starts at k: the first
\* position from k on that holds a terminator written by gettok (0: none).
RECURSIVE NulPos(_)
NulPos(k) ==
  IF k > Len(prov) THEN 0 ELSE IF prov[k] = "nul" THEN k ELSE NulPos(k + 1)

\* The tokens xs (a function on lo..hi) start inside the buffer, each has
\* its terminator, and the bytes of each, start through terminator, lie
\* before the start of the next.
Disjoint(xs, lo, hi) ==
  \A i \in lo..hi :
    /\ 1 <= xs[i] /\ xs[i] <= Len(buf)
    /\ NulPos(xs[i]) >= xs[i] /\ buf[NulPos(xs[i])] = 0
    /\ i < hi => (xs[i] < xs[i + 1] /\ NulPos(xs[i]) < xs[i + 1])

C20_Layout ==
  /\ Disjoint(toks, 1, Len(toks))
  /\ Succeeded => (Disjoint(argv, 0, argc - 1) /\ argv[argc + 1] = 1)

\* No step writes into the bytes of a token already returned.
C20_Step ==
  \A k \in Written : \A i \in 1..Len(toks) : k > NulPos(toks[i])

\* C20: on success each token starts inside the single working buffer, the
\* token starts are strictly increasing, and the byte range of token i
\* (start through its terminator) lies entirely before the start of token
\* i+1; scanning or finalizing a later token never modifies the bytes of an
\* earlier token.
C20_TokensDisjoint == [][C20_Step]_vars /\ []C20_Layout

\* Two tokens, the first compacted by an escape: its terminator lies before
\* the separator, and the second token starts behind both.
C20_Witness ==
  /\ Succeeded /\ argc = 2
  /\ prov[argv[0]] = "esc"
  /\ NulPos(argv[0]) + 1 < argv[1]
  /\ buf[argv[1]] # 0
====
